---- MODULE Spec2Model ----
(***************************************************************************)
(* Model of the segment difficulty engine of komqom                        *)
(* (src/src/utils/segmentDifficulty.js).                                   *)
(*                                                                         *)
(* JavaScript values are records [t, n, s]: t is the type tag, n the       *)
(* integer of a number, s the characters of a string.  A string is a       *)
(* sequence of one-character strings; the character U+2014 (the            *)
(* placeholder dash of the source) is written EmDash.                      *)
(***************************************************************************)
EXTENDS Integers, Sequences, FiniteSets, TLC

\* the difficulty engine and the components that render it
VARIABLES fn, args, pc, ret, logCount

\* App and MapView (src/src/App.jsx, src/src/components/MapView.jsx)
VARIABLES activityType, lsActivityType, appMapBounds, onBoundsChange, center, zoom,
          debounceRef, initialLoad, reloads, hookCall

\* the useSegments hook (src/unnamed/part_002, the version with the 2x2 grid):
\* its state, its ref, the loadForBounds calls awaiting their explore
\* requests, the detail requests in flight, and two histories: the number
\* of loadForBounds calls issued so far, and that number at the last clearAll
VARIABLES hookSegments, activeId, loading, error, detailsFetched,
          loads, detailRequests, issued, clearedAt

\* the token worker (src/worker/index.js): the request it received, its
\* environment, the answer the platform's token endpoint gives, the body
\* the worker posted to that endpoint, and the response of the worker
VARIABLES request, env, platform, tokenRequest, response

engineVars == <<fn, args, pc, ret, logCount>>

workerVars == <<request, env, platform, tokenRequest, response>>

\* the variables of the worker while another part of the program is modelled
WorkerIdle ==
  /\ request = <<>> /\ env = <<>> /\ platform = <<>>
  /\ tokenRequest = <<>> /\ response = <<>>

hookVars == <<hookSegments, activeId, loading, error, detailsFetched,
              loads, detailRequests, issued, clearedAt>>

\* the variables of the hook while another part of the program is modelled
HookIdle ==
  /\ hookSegments = <<>> /\ activeId = 0 /\ loading = FALSE /\ error = ""
  /\ detailsFetched = {} /\ loads = {} /\ detailRequests = {}
  /\ issued = 0 /\ clearedAt = 0

mapVars == <<activityType, lsActivityType, appMapBounds, onBoundsChange, center, zoom,
             debounceRef, initialLoad, reloads, hookCall>>

vars == <<engineVars, mapVars, hookVars, workerVars>>

\* the variables of the engine while another part of the program is modelled
EngineIdle ==
  /\ fn = "" /\ args = <<>> /\ pc = "idle" /\ ret = <<>> /\ logCount = 0

\* the variables of App and MapView while another part is modelled
MapIdle ==
  /\ activityType = "" /\ lsActivityType = "" /\ appMapBounds = <<>>
  /\ onBoundsChange = "" /\ center = 0 /\ zoom = 0
  /\ debounceRef = FALSE /\ initialLoad = FALSE /\ reloads = <<>>
  /\ hookCall = <<>>

----------------------------------------------------------------------------
(* Bounds of the model *)

MaxLen == 4
MaxParts == 4
MaxKomLen == 3

----------------------------------------------------------------------------
(* JavaScript values *)

Undefined == [t |-> "undefined", n |-> 0, s |-> <<>>]
Null == [t |-> "null", n |-> 0, s |-> <<>>]
NaN == [t |-> "NaN", n |-> 0, s |-> <<>>]
Num(k) == [t |-> "number", n |-> k, s |-> <<>>]
Str(chars) == [t |-> "string", n |-> 0, s |-> chars]

\* !v of JavaScript: undefined, null, 0, NaN and "" are falsy
Falsy(v) ==
  \/ v.t \in {"undefined", "null", "NaN"}
  \/ v.t = "number" /\ v.n = 0
  \/ v.t = "string" /\ v.s = <<>>

\* v <= 0 of JavaScript on the values of the model: null converts to 0,
\* undefined and NaN compare false
LeZero(v) ==
  \/ v.t = "null"
  \/ v.t = "number" /\ v.n <= 0

\* v == null of JavaScript (loose equality): null or undefined
LooseNull(v) == v.t \in {"undefined", "null"}

Returned(v) == [kind |-> "return", val |-> v]
Thrown(e) == [kind |-> "throw", val |-> e]

----------------------------------------------------------------------------
(* Characters and strings *)

EmDash == "EMDASH"
DigitChars == <<"0", "1", "2", "3", "4", "5", "6", "7", "8", "9">>
Digits == {DigitChars[i] : i \in 1..10}
WhiteSpace == {" "}

DigitVal(c) == (CHOOSE i \in 1..10 : DigitChars[i] = c) - 1

\* String.prototype.trim
RECURSIVE TrimStart(_)
TrimStart(s) ==
  IF s # <<>> /\ Head(s) \in WhiteSpace THEN TrimStart(Tail(s)) ELSE s

RECURSIVE TrimEnd(_)
TrimEnd(s) ==
  IF s # <<>> /\ s[Len(s)] \in WhiteSpace
    THEN TrimEnd(SubSeq(s, 1, Len(s) - 1))
    ELSE s

Trim(s) == TrimEnd(TrimStart(s))

\* /^\d+s?$/.test(s)
SecondsRegex(s) ==
  LET body == IF s # <<>> /\ s[Len(s)] = "s" THEN SubSeq(s, 1, Len(s) - 1) ELSE s
  IN  /\ body # <<>>
      /\ \A i \in 1..Len(body) : body[i] \in Digits

\* String.prototype.split(':')
RECURSIVE SplitFrom(_, _)
SplitFrom(s, cur) ==
  IF s = <<>> THEN <<cur>>
  ELSE IF Head(s) = ":" THEN <<cur>> \o SplitFrom(Tail(s), <<>>)
  ELSE SplitFrom(Tail(s), Append(cur, Head(s)))

Split(s) == SplitFrom(s, <<>>)

\* the longest prefix of s made of digits
RECURSIVE DigitPrefix(_)
DigitPrefix(s) ==
  IF s # <<>> /\ Head(s) \in Digits
    THEN <<Head(s)>> \o DigitPrefix(Tail(s))
    ELSE <<>>

RECURSIVE DecimalValue(_)
DecimalValue(ds) ==
  IF ds = <<>> THEN 0
  ELSE DecimalValue(SubSeq(ds, 1, Len(ds) - 1)) * 10 + DigitVal(ds[Len(ds)])

\* parseInt(p, 10): leading white space is skipped, a sign is accepted, the
\* digits that follow are read and whatever follows them is ignored; NaN
\* when no digit is found
ParseInt(p) ==
  LET t == TrimStart(p)
      signed == t # <<>> /\ Head(t) \in {"-", "+"}
      rest == IF signed THEN Tail(t) ELSE t
      ds == DigitPrefix(rest)
  IN  IF ds = <<>> THEN NaN
      ELSE IF signed /\ Head(t) = "-" THEN Num(0 - DecimalValue(ds))
      ELSE Num(DecimalValue(ds))

----------------------------------------------------------------------------
(* parseKomTime *)

\* parseKomTimeStr with the hours of HH:MM:SS read as minutes
parseKomTimeStr_noHours(timeStr) ==
  IF timeStr = <<>> \/ timeStr = <<EmDash>> THEN Null
  ELSE
    LET clean == Trim(timeStr)
        split == Split(clean)
        parts == [i \in 1..Len(split) |-> ParseInt(split[i])]
    IN  IF SecondsRegex(clean) THEN ParseInt(clean)
        ELSE IF \E i \in 1..Len(parts) : parts[i].t = "NaN" THEN Null
        ELSE IF Len(parts) = 2 THEN Num(parts[1].n * 60 + parts[2].n)
        ELSE IF Len(parts) = 3
          THEN Num(parts[1].n * 60 + parts[2].n * 60 + parts[3].n)
        ELSE Null

\* parseKomTimeStr with a lone component accepted by its numeric prefix
parseKomTimeStr_lonePart(timeStr) ==
  IF timeStr = <<>> \/ timeStr = <<EmDash>> THEN Null
  ELSE
    LET clean == Trim(timeStr)
        split == Split(clean)
        parts == [i \in 1..Len(split) |-> ParseInt(split[i])]
    IN  IF SecondsRegex(clean) THEN ParseInt(clean)
        ELSE IF \E i \in 1..Len(parts) : parts[i].t = "NaN" THEN Null
        ELSE IF Len(parts) = 1 THEN parts[1]
        ELSE IF Len(parts) = 2 THEN Num(parts[1].n * 60 + parts[2].n)
        ELSE IF Len(parts) = 3
          THEN Num(parts[1].n * 3600 + parts[2].n * 60 + parts[3].n)
        ELSE Null

\* the value parseKomTime returns for a string argument
parseKomTimeStr(timeStr) ==
  IF timeStr = <<>> \/ timeStr = <<EmDash>> THEN Null
  ELSE
    LET clean == Trim(timeStr)
        split == Split(clean)
        parts == [i \in 1..Len(split) |-> ParseInt(split[i])]
    IN  IF SecondsRegex(clean) THEN ParseInt(clean)
        ELSE IF \E i \in 1..Len(parts) : parts[i].t = "NaN" THEN Null
        ELSE IF Len(parts) = 2 THEN Num(parts[1].n * 60 + parts[2].n)
        ELSE IF Len(parts) = 3
          THEN Num(parts[1].n * 3600 + parts[2].n * 60 + parts[3].n)
        ELSE Null

\* the outcome of parseKomTime(timeStr) for any JavaScript value: a falsy
\* argument returns null, a string is parsed, and any other value has no
\* trim method, so the call throws a TypeError
parseKomTime(timeStr) ==
  IF Falsy(timeStr) THEN Returned(Null)
  ELSE IF timeStr.t = "string" THEN Returned(parseKomTimeStr(timeStr.s))
  ELSE Thrown("TypeError")

----------------------------------------------------------------------------
(* Numbers of the engine's arithmetic.  The source computes in IEEE        *)
(* doubles; the model computes the same expressions over exact rationals.  *)
(* A natural number is its sequence of base-Base digits, least significant *)
(* first and without leading zeros, so that no product overflows; a        *)
(* rational is [neg, num, den] with den > 0 and neg = FALSE for zero.      *)

Base == 10000

RECURSIVE NatOf(_)
NatOf(n) == IF n = 0 THEN <<>> ELSE <<n % Base>> \o NatOf(n \div Base)

RECURSIVE Strip(_)
Strip(a) ==
  IF a # <<>> /\ a[Len(a)] = 0 THEN Strip(SubSeq(a, 1, Len(a) - 1)) ELSE a

RECURSIVE NAddC(_, _, _)
NAddC(a, b, c) ==
  IF a = <<>> /\ b = <<>> THEN (IF c = 0 THEN <<>> ELSE <<c>>)
  ELSE LET x == IF a = <<>> THEN 0 ELSE Head(a)
           y == IF b = <<>> THEN 0 ELSE Head(b)
           t == x + y + c
       IN  <<t % Base>> \o NAddC(IF a = <<>> THEN a ELSE Tail(a),
                                 IF b = <<>> THEN b ELSE Tail(b),
                                 t \div Base)

NAdd(a, b) == NAddC(a, b, 0)

\* a - b for a >= b
RECURSIVE NSubB(_, _, _)
NSubB(a, b, c) ==
  IF a = <<>> THEN <<>>
  ELSE LET y == IF b = <<>> THEN 0 ELSE Head(b)
           t == Head(a) - y - c
       IN  <<IF t < 0 THEN t + Base ELSE t>>
             \o NSubB(Tail(a), IF b = <<>> THEN b ELSE Tail(b), IF t < 0 THEN 1 ELSE 0)

NSub(a, b) == Strip(NSubB(a, b, 0))

RECURSIVE NMulDigit(_, _, _)
NMulDigit(a, k, c) ==
  IF a = <<>> THEN (IF c = 0 THEN <<>> ELSE <<c>>)
  ELSE LET t == Head(a) * k + c
       IN  <<t % Base>> \o NMulDigit(Tail(a), k, t \div Base)

NShift(a) == IF a = <<>> THEN a ELSE <<0>> \o a

RECURSIVE NMul(_, _)
NMul(a, b) ==
  IF a = <<>> \/ b = <<>> THEN <<>>
  ELSE NAdd(Strip(NMulDigit(a, Head(b), 0)), NShift(NMul(a, Tail(b))))

\* -1, 0 or 1 as a < b, a = b or a > b
RECURSIVE NCmpFrom(_, _, _)
NCmpFrom(a, b, i) ==
  IF i = 0 THEN 0
  ELSE IF a[i] < b[i] THEN -1
  ELSE IF a[i] > b[i] THEN 1
  ELSE NCmpFrom(a, b, i - 1)

NCmp(a, b) ==
  IF Len(a) < Len(b) THEN -1
  ELSE IF Len(a) > Len(b) THEN 1
  ELSE NCmpFrom(a, b, Len(a))

\* num and den without the factors Base they share
RECURSIVE Cancel(_, _)
Cancel(num, den) ==
  IF num # <<>> /\ den # <<>> /\ Head(num) = 0 /\ Head(den) = 0
    THEN Cancel(Tail(num), Tail(den))
    ELSE <<num, den>>

Rat(neg, num, den) ==
  LET c == Cancel(num, den)
  IN  [neg |-> neg /\ num # <<>>, num |-> c[1], den |-> c[2]]

\* the integer k, and the decimal literal k / scale (9.81 is RDec(981, 100))
RInt(k) == Rat(k < 0, NatOf(IF k < 0 THEN 0 - k ELSE k), NatOf(1))
RDec(k, scale) == Rat(k < 0, NatOf(IF k < 0 THEN 0 - k ELSE k), NatOf(scale))

RNeg(x) == Rat(~x.neg, x.num, x.den)

RAdd(x, y) ==
  LET a == NMul(x.num, y.den)
      b == NMul(y.num, x.den)
      d == NMul(x.den, y.den)
  IN  IF x.neg = y.neg THEN Rat(x.neg, NAdd(a, b), d)
      ELSE IF NCmp(a, b) >= 0 THEN Rat(x.neg, NSub(a, b), d)
      ELSE Rat(y.neg, NSub(b, a), d)

RSub(x, y) == RAdd(x, RNeg(y))

RMul(x, y) == Rat(x.neg # y.neg, NMul(x.num, y.num), NMul(x.den, y.den))

\* x / y for y # 0
RDiv(x, y) == Rat(x.neg # y.neg, NMul(x.num, y.den), NMul(x.den, y.num))

\* the sign of x - y: -1, 0 or 1
RCmp(x, y) ==
  LET d == RSub(x, y)
  IN  IF d.num = <<>> THEN 0 ELSE IF d.neg THEN -1 ELSE 1

RGe(x, y) == RCmp(x, y) >= 0
RLe(x, y) == RCmp(x, y) <= 0

----------------------------------------------------------------------------
(* Constants of the engine *)

\* the physics constants with the bike mass left out
PHYSICS_noBike ==
  [ g |-> RDec(981, 100), rho |-> RDec(12, 10), bikeMass |-> RInt(0),
    Crr |-> RDec(4, 1000), CdA |-> RDec(28, 100), eta |-> RDec(98, 100) ]

PHYSICS ==
  [ g |-> RDec(981, 100), rho |-> RDec(12, 10), bikeMass |-> RInt(8),
    Crr |-> RDec(4, 1000), CdA |-> RDec(28, 100), eta |-> RDec(98, 100) ]

CP_MODEL == [ Pmax |-> RDec(2180, 100), CP |-> RDec(477, 100), Wprime |-> RInt(280) ]

APR == RSub(CP_MODEL.Pmax, CP_MODEL.CP)
W_APR == RMul(CP_MODEL.Wprime, APR)

DIFFICULTY_CLASSES ==
  << [min |-> 150, class |-> "suspicious", label |-> "hmmmm",       color |-> "#6b7280"],
     [min |-> 130, class |-> "extreme",    label |-> "Extrem",      color |-> "#7c3aed"],
     [min |-> 110, class |-> "very-hard",  label |-> "Sehr schwer", color |-> "#dc2626"],
     [min |-> 90,  class |-> "hard",       label |-> "Schwer",      color |-> "#ea580c"],
     [min |-> 70,  class |-> "moderate",   label |-> "Moderat",     color |-> "#ca8a04"],
     [min |-> 50,  class |-> "accessible", label |-> "Machbar",     color |-> "#16a34a"],
     [min |-> 0,   class |-> "easy",       label |-> "Einfach",     color |-> "#22c55e"] >>

----------------------------------------------------------------------------
(* referencePower, calculateRequiredW, getDifficultyClass *)

\* referencePower with the sign of APR * t slipped in the denominator
referencePower_minus(t) ==
  IF RLe(t, RInt(0)) THEN CP_MODEL.Pmax
  ELSE RAdd(CP_MODEL.CP, RDiv(W_APR, RSub(CP_MODEL.Wprime, RMul(APR, t))))

\* referencePower with Pmax in place of CP as the asymptote
referencePower_fromPmax(t) ==
  IF RLe(t, RInt(0)) THEN CP_MODEL.Pmax
  ELSE RAdd(CP_MODEL.Pmax, RDiv(W_APR, RAdd(CP_MODEL.Wprime, RMul(APR, t))))

\* t is a rational number of seconds
referencePower(t) ==
  IF RLe(t, RInt(0)) THEN CP_MODEL.Pmax
  ELSE RAdd(CP_MODEL.CP, RDiv(W_APR, RAdd(CP_MODEL.Wprime, RMul(APR, t))))

\* calculateRequiredW with the power per kilogram taken over rider plus bike
calculateRequiredW_perTotalMass(distance, elevation, timeSeconds, riderMass) ==
  LET v == RDiv(distance, timeSeconds)
      grade == RDiv(elevation, distance)
      totalMass == RAdd(riderMass, PHYSICS.bikeMass)
      P_gravity == RMul(RMul(RMul(totalMass, PHYSICS.g), v), grade)
      P_rolling == RMul(RMul(RMul(totalMass, PHYSICS.g), v), PHYSICS.Crr)
      P_aero == RMul(RMul(RMul(RMul(RMul(RDec(5, 10), PHYSICS.rho), PHYSICS.CdA), v), v), v)
      P_total == RDiv(RAdd(RAdd(P_gravity, P_rolling), P_aero), PHYSICS.eta)
      P_totalWkg == RDiv(P_total, totalMass)
  IN  [P_total |-> P_total, P_totalWkg |-> P_totalWkg]

\* calculateRequiredW with the gravity term clamped at zero
calculateRequiredW_clamped(distance, elevation, timeSeconds, riderMass) ==
  LET v == RDiv(distance, timeSeconds)
      grade == RDiv(elevation, distance)
      totalMass == RAdd(riderMass, PHYSICS.bikeMass)
      P_climb == RMul(RMul(RMul(totalMass, PHYSICS.g), v), grade)
      P_gravity == IF P_climb.neg THEN RInt(0) ELSE P_climb
      P_rolling == RMul(RMul(RMul(totalMass, PHYSICS.g), v), PHYSICS.Crr)
      P_aero == RMul(RMul(RMul(RMul(RMul(RDec(5, 10), PHYSICS.rho), PHYSICS.CdA), v), v), v)
      P_total == RDiv(RAdd(RAdd(P_gravity, P_rolling), P_aero), PHYSICS.eta)
      P_totalWkg == RDiv(P_total, riderMass)
  IN  [P_total |-> P_total, P_totalWkg |-> P_totalWkg]

calculateRequiredW(distance, elevation, timeSeconds, riderMass) ==
  LET v == RDiv(distance, timeSeconds)
      grade == RDiv(elevation, distance)
      totalMass == RAdd(riderMass, PHYSICS.bikeMass)
      P_gravity == RMul(RMul(RMul(totalMass, PHYSICS.g), v), grade)
      P_rolling == RMul(RMul(RMul(totalMass, PHYSICS.g), v), PHYSICS.Crr)
      P_aero == RMul(RMul(RMul(RMul(RMul(RDec(5, 10), PHYSICS.rho), PHYSICS.CdA), v), v), v)
      P_total == RDiv(RAdd(RAdd(P_gravity, P_rolling), P_aero), PHYSICS.eta)
      P_totalWkg == RDiv(P_total, riderMass)
  IN  [P_total |-> P_total, P_totalWkg |-> P_totalWkg]

Band(level) == [class |-> level.class, label |-> level.label, color |-> level.color]

\* the loop with an exclusive threshold (score > level.min)
RECURSIVE ClassFrom_exclusive(_, _)
ClassFrom_exclusive(score, i) ==
  IF i > Len(DIFFICULTY_CLASSES) THEN DIFFICULTY_CLASSES[Len(DIFFICULTY_CLASSES)]
  ELSE IF RCmp(score, RInt(DIFFICULTY_CLASSES[i].min)) > 0 THEN Band(DIFFICULTY_CLASSES[i])
  ELSE ClassFrom_exclusive(score, i + 1)

\* the loop over DIFFICULTY_CLASSES from index i on
RECURSIVE ClassFrom(_, _)
ClassFrom(score, i) ==
  IF i > Len(DIFFICULTY_CLASSES) THEN DIFFICULTY_CLASSES[Len(DIFFICULTY_CLASSES)]
  ELSE IF RGe(score, RInt(DIFFICULTY_CLASSES[i].min)) THEN Band(DIFFICULTY_CLASSES[i])
  ELSE ClassFrom(score, i + 1)

\* getDifficultyClass answering the 'unknown' band when no threshold matches
getDifficultyClass_unknownDefault(score) ==
  IF RGe(score, RInt(DIFFICULTY_CLASSES[Len(DIFFICULTY_CLASSES)].min))
    THEN ClassFrom(score, 1)
    ELSE [class |-> "unknown", label |-> EmDash, color |-> "#9ca3af"]

getDifficultyClass(score) == ClassFrom(score, 1)

----------------------------------------------------------------------------
(* calculateSegmentDifficulty *)

\* a numeric field of the result: null, or a number with its value q
NullNum == [t |-> "null", q |-> RInt(0)]
RealNum(q) == [t |-> "number", q |-> q]

\* the default result carrying the lowest band in place of 'unknown'
defaultResult_lowestBand ==
  [ komPower |-> NullNum, komPowerWKg |-> NullNum, difficultyScore |-> NullNum,
    difficultyClass |-> Band(DIFFICULTY_CLASSES[Len(DIFFICULTY_CLASSES)]),
    isValid |-> FALSE ]

defaultResult ==
  [ komPower |-> NullNum, komPowerWKg |-> NullNum, difficultyScore |-> NullNum,
    difficultyClass |-> [class |-> "unknown", label |-> EmDash, color |-> "#9ca3af"],
    isValid |-> FALSE ]

\* the valid result: the powers, the score and the class of the score
validResult(komPower, komPowerWKg, difficultyScore) ==
  [ outcome |-> Returned(
      [ komPower |-> RealNum(komPower),
        komPowerWKg |-> RealNum(komPowerWKg),
        difficultyScore |-> RealNum(difficultyScore),
        difficultyClass |-> getDifficultyClass(difficultyScore),
        isValid |-> TRUE ]),
    logs |-> 0 ]

\* the score left as a fraction, not a percentage
scoreResult_fraction(powerResult, refPower) ==
  validResult(powerResult.P_total, powerResult.P_totalWkg,
              RDiv(powerResult.P_totalWkg, refPower))

\* the score of the power per kilogram against the reference power
scoreResult(powerResult, refPower) ==
  validResult(powerResult.P_total, powerResult.P_totalWkg,
              RMul(RDiv(powerResult.P_totalWkg, refPower), RInt(100)))

\* the outcome of the call and the number of console.log lines it writes
calculateSegmentDifficulty(o) ==
  IF \/ Falsy(o.distance) \/ LeZero(o.distance)
     \/ LooseNull(o.elevation)
     \/ Falsy(o.riderMass) \/ LeZero(o.riderMass)
     \/ Falsy(o.komTime)
    THEN [outcome |-> Returned(defaultResult), logs |-> 1]
  ELSE IF Falsy(o.distance) \/ LeZero(o.distance)
    THEN [outcome |-> Returned(defaultResult), logs |-> 0]
  ELSE IF LooseNull(o.elevation)
    THEN [outcome |-> Returned(defaultResult), logs |-> 0]
  ELSE IF Falsy(o.riderMass) \/ LeZero(o.riderMass)
    THEN [outcome |-> Returned(defaultResult), logs |-> 0]
  ELSE
    LET parsed == parseKomTime(o.komTime)
    IN  IF parsed.kind = "throw" THEN [outcome |-> parsed, logs |-> 0]
        ELSE
          LET komSeconds == parsed.val
          IN  IF Falsy(komSeconds) \/ LeZero(komSeconds)
                THEN [outcome |-> Returned(defaultResult), logs |-> 0]
              ELSE
                scoreResult(calculateRequiredW(RInt(o.distance.n), RInt(o.elevation.n),
                                               RInt(komSeconds.n), RInt(o.riderMass.n)),
                            referencePower(RInt(komSeconds.n)))

----------------------------------------------------------------------------
(* getSegmentDifficulty.  A segment record is [data, details]: data holds   *)
(* distance, elev_difference and start_latlng of the explore result,       *)
(* details is [loaded, distance, total_elevation_gain, kom] with           *)
(* loaded = FALSE for details = null and kom the value of xoms?.kom; an    *)
(* absent field is Undefined.                                              *)

\* details?.field
Opt(details, value) == IF details.loaded THEN value ELSE Undefined

\* getSegmentDifficulty preferring the distance of the explore result
getSegmentDifficulty_summaryFirst(segment, riderMass) ==
  LET data == segment.data
      details == segment.details
      summary == data.distance
      distance == IF ~Falsy(summary) THEN summary ELSE Opt(details, details.distance)
      gain == Opt(details, details.total_elevation_gain)
      elevation == IF ~LooseNull(data.elev_difference) THEN data.elev_difference
                   ELSE IF ~LooseNull(gain) THEN gain
                   ELSE Num(0)
      komTime == Opt(details, details.kom)
  IN  calculateSegmentDifficulty(
        [distance |-> distance, elevation |-> elevation,
         komTime |-> komTime, riderMass |-> riderMass])

\* the outcome of the call and the number of console.log lines it writes
getSegmentDifficulty(segment, riderMass) ==
  LET data == segment.data
      details == segment.details
      detailed == Opt(details, details.distance)
      distance == IF ~Falsy(detailed) THEN detailed ELSE data.distance
      gain == Opt(details, details.total_elevation_gain)
      elevation == IF ~LooseNull(data.elev_difference) THEN data.elev_difference
                   ELSE IF ~LooseNull(gain) THEN gain
                   ELSE Num(0)
      komTime == Opt(details, details.kom)
  IN  calculateSegmentDifficulty(
        [distance |-> distance, elevation |-> elevation,
         komTime |-> komTime, riderMass |-> riderMass])

----------------------------------------------------------------------------
(* SegmentPanel: the list of cards it renders.  The segments object is the *)
(* sequence of its records in the order of Object.entries (ascending id),  *)
(* the id of a record being its index; mapBounds is [present, box] with    *)
(* box = <<swLat, swLng, neLat, neLng>> and present = FALSE for null.      *)

RIDER_MASS == 75

\* difficultyScore || 0
ScoreOrZero(difficulty) ==
  IF difficulty.difficultyScore.t = "null" \/ difficulty.difficultyScore.q.num = <<>>
    THEN RInt(0)
    ELSE difficulty.difficultyScore.q

\* the comparator with the scores subtracted the other way round
compareDifficulty_descending(a, b) ==
  IF a.difficulty.isValid # b.difficulty.isValid
    THEN (IF a.difficulty.isValid THEN -1 ELSE 1)
    ELSE RCmp(ScoreOrZero(b.difficulty), ScoreOrZero(a.difficulty))

\* the comparator of visible.sort: negative, zero or positive
compareDifficulty(a, b) ==
  IF a.difficulty.isValid # b.difficulty.isValid
    THEN (IF a.difficulty.isValid THEN -1 ELSE 1)
    ELSE RCmp(ScoreOrZero(a.difficulty), ScoreOrZero(b.difficulty))

\* Array.prototype.sort is stable: x goes before the first element of the
\* sorted list that it precedes strictly
RECURSIVE InsertSorted(_, _)
InsertSorted(x, sorted) ==
  IF sorted = <<>> THEN <<x>>
  ELSE IF compareDifficulty(x, Head(sorted)) < 0 THEN <<x>> \o sorted
  ELSE <<Head(sorted)>> \o InsertSorted(x, Tail(sorted))

RECURSIVE SortFrom(_, _)
SortFrom(items, sorted) ==
  IF items = <<>> THEN sorted
  ELSE SortFrom(Tail(items), InsertSorted(Head(items), sorted))

InBounds(seg, mapBounds) ==
  \/ ~mapBounds.present
  \/ LET lat == seg.data.start_latlng[1]
         lng == seg.data.start_latlng[2]
     IN  /\ lat >= mapBounds.box[1] /\ lat <= mapBounds.box[3]
         /\ lng >= mapBounds.box[2] /\ lng <= mapBounds.box[4]

\* the entries from index i on that pass the filter, with their difficulty
RECURSIVE VisibleFrom(_, _, _)
VisibleFrom(segments, mapBounds, i) ==
  IF i > Len(segments) THEN <<>>
  ELSE IF InBounds(segments[i], mapBounds)
    THEN <<[id |-> i, seg |-> segments[i],
            difficulty |-> getSegmentDifficulty(segments[i], Num(RIDER_MASS)).outcome.val]>>
           \o VisibleFrom(segments, mapBounds, i + 1)
  ELSE VisibleFrom(segments, mapBounds, i + 1)

\* the console.log lines the difficulty computations of the render write
RECURSIVE PanelLogs(_, _, _)
PanelLogs(segments, mapBounds, i) ==
  IF i > Len(segments) THEN 0
  ELSE (IF InBounds(segments[i], mapBounds)
          THEN getSegmentDifficulty(segments[i], Num(RIDER_MASS)).logs ELSE 0)
         + PanelLogs(segments, mapBounds, i + 1)

\* the sorted list of visible entries, in the order the cards are rendered
SegmentPanel(segments, mapBounds) ==
  [ outcome |-> Returned(SortFrom(VisibleFrom(segments, mapBounds, 1), <<>>)),
    logs |-> PanelLogs(segments, mapBounds, 1) ]

----------------------------------------------------------------------------
(* SegmentCard: the KOM stat and the difficulty block of the card it        *)
(* renders.  An element that is not rendered has shown = FALSE.             *)

\* integers are searched in -MaxRounded..MaxRounded
MaxRounded == 1000000000

\* the greatest integer k in lo..hi with k <= x, for lo <= x
RECURSIVE FloorIn(_, _, _)
FloorIn(x, lo, hi) ==
  IF lo = hi THEN lo
  ELSE LET mid == lo + (hi - lo + 1) \div 2
       IN  IF RGe(x, RInt(mid)) THEN FloorIn(x, mid, hi) ELSE FloorIn(x, lo, mid - 1)

Floor(x) == FloorIn(x, 0 - MaxRounded, MaxRounded)

\* Math.round(x): the nearest integer, halves upwards
MathRound(x) == Floor(RAdd(x, RDec(5, 10)))

\* the integer x.toFixed(0) writes: the nearest one, halves away from zero
ToFixed0(x) == IF x.neg THEN 0 - Floor(RAdd(RNeg(x), RDec(5, 10))) ELSE MathRound(x)

NoBadge == [shown |-> FALSE, class |-> "", color |-> "", score |-> 0, label |-> ""]
NoPower == [shown |-> FALSE, watts |-> 0]

SegmentCard(segment, difficulty) ==
  LET kom == Opt(segment.details, segment.details.kom)
      komStat == IF Falsy(kom) THEN Str(<<EmDash>>) ELSE kom
  IN  IF difficulty.isValid
        THEN [ kom |-> komStat,
               badge |-> [ shown |-> TRUE,
                           class |-> difficulty.difficultyClass.class,
                           color |-> difficulty.difficultyClass.color,
                           score |-> MathRound(difficulty.difficultyScore.q),
                           label |-> difficulty.difficultyClass.label ],
               power |-> [shown |-> TRUE, watts |-> ToFixed0(difficulty.komPower.q)] ]
        ELSE [kom |-> komStat, badge |-> NoBadge, power |-> NoPower]

----------------------------------------------------------------------------
(* Inputs *)

Alphabet == {"0", "3", "5", ":", "s", "a", "-", " ", EmDash}

RECURSIVE SeqsUpTo(_, _)
SeqsUpTo(S, n) ==
  IF n = 0 THEN {<<>>}
  ELSE LET shorter == SeqsUpTo(S, n - 1)
       IN  shorter \cup {Append(q, c) : q \in {r \in shorter : Len(r) = n - 1}, c \in S}

\* every string over the alphabet of at most MaxLen characters
FlatStrings == SeqsUpTo(Alphabet, MaxLen)

\* strings of 2..MaxParts components joined by colons, each component
\* empty or one character
Components == {<<>>, <<"0">>, <<"5">>, <<"a">>}

RECURSIVE Join(_)
Join(cs) ==
  IF Len(cs) = 1 THEN cs[1] ELSE cs[1] \o <<":">> \o Join(Tail(cs))

ColonStrings ==
  UNION {{Join(cs) : cs \in [1..k -> Components]} : k \in 2..MaxParts}

\* the examples of the documentation
DocStrings ==
  { <<"4", "5">>, <<"4", "5", "s">>, <<"5", ":", "3", "0">>,
    <<"1", ":", "2", "3", ":", "4", "5">>, <<"2", "0", ":", "0", "0">>,
    <<"a", "b", "c">>, <<"5", ":", "3", "a">>, <<"0", ":", "-", "3", "0">> }

TimeStrings == FlatStrings \cup ColonStrings \cup DocStrings

NonStrings == {Undefined, Null, Num(0), Num(300)}

\* the times calculateSegmentDifficulty is called with: every string of at
\* most MaxKomLen characters, the examples, and values that are not strings
KomTimes ==
  NonStrings \cup {Str(s) : s \in SeqsUpTo(Alphabet, MaxKomLen) \cup DocStrings}

Distances == {Undefined, Null, Num(0), Num(-100), Num(1000), Num(5000)}
Elevations == {Undefined, Null, Num(-100), Num(0), Num(300)}
RiderMasses == {Undefined, Num(0), Num(-1), Num(75)}

\* scores in tenths of a percent point from -MaxBelowZero to MaxScore, and
\* the scores one thousandth below each threshold
MaxBelowZero == 5
MaxScore == 160

Scores ==
  {RDec(k, 10) : k \in (0 - MaxBelowZero * 10)..(MaxScore * 10)}
    \cup {RDec(DIFFICULTY_CLASSES[i].min * 1000 - 1, 1000) : i \in 1..Len(DIFFICULTY_CLASSES)}

\* durations in tenths of a second from -MaxBelowZero to MaxDuration, and
\* the durations of the documentation
MaxDuration == 30

Durations ==
  {RDec(k, 10) : k \in (0 - MaxBelowZero * 10)..(MaxDuration * 10)}
    \cup {RInt(1200), RInt(100000)}

\* segment records: the explore data with and without distance and
\* elevation difference, details not loaded or loaded with and without each
\* field
NoDetails ==
  [loaded |-> FALSE, distance |-> Undefined, total_elevation_gain |-> Undefined,
   kom |-> Undefined]

LoadedDetails ==
  [ loaded : {TRUE},
    distance : {Undefined, Num(0), Num(5000)},
    total_elevation_gain : {Undefined, Num(0), Num(50)},
    kom : {Undefined, Str(<<EmDash>>), Str(<<"3", "s">>), Str(<<"5", ":", "3", "0">>),
           Str(<<"2", "0", ":", "0", "0">>)} ]

SegmentData ==
  [ distance : {Undefined, Num(0), Num(1000)},
    elev_difference : {Undefined, Null, Num(-100), Num(0), Num(300)},
    start_latlng : {<<0, 0>>} ]

Segments == [data : SegmentData, details : {NoDetails} \cup LoadedDetails]

SegmentArgs == [segment : Segments, riderMass : {Undefined, Num(75)}]

\* the panel is rendered with at most MaxSegments segments: steep, flat
\* and downhill ones with their times loaded, one without details and one
\* with the placeholder time, inside and outside the map bounds
MaxSegments == 3

TimedDetails ==
  [loaded |-> TRUE, distance |-> Undefined, total_elevation_gain |-> Undefined,
   kom |-> Str(<<"5", ":", "3", "0">>)]

PlaceholderDetails ==
  [loaded |-> TRUE, distance |-> Undefined, total_elevation_gain |-> Undefined,
   kom |-> Str(<<EmDash>>)]

PanelSegment(elevation, latlng, details) ==
  [ data |-> [distance |-> Num(1000), elev_difference |-> Num(elevation),
              start_latlng |-> latlng],
    details |-> details ]

PanelSegments ==
  { PanelSegment(-100, <<0, 0>>, TimedDetails),
    PanelSegment(0, <<0, 0>>, TimedDetails),
    PanelSegment(300, <<0, 0>>, TimedDetails),
    PanelSegment(300, <<5, 5>>, TimedDetails),
    PanelSegment(300, <<0, 0>>, NoDetails),
    PanelSegment(0, <<0, 0>>, PlaceholderDetails) }

SegmentLists == UNION {[1..k -> PanelSegments] : k \in 0..MaxSegments}

MapBounds ==
  { [present |-> FALSE, box |-> <<0, 0, 0, 0>>],
    [present |-> TRUE, box |-> <<-1, -1, 1, 1>>] }

PanelArgs == [segments : SegmentLists, mapBounds : MapBounds]

\* a card is rendered with a segment and the difficulty SegmentPanel
\* computed for it
CardArgs ==
  { [segment |-> seg,
     difficulty |-> getSegmentDifficulty(seg, Num(RIDER_MASS)).outcome.val] : seg \in Segments }

----------------------------------------------------------------------------
(* The state machine: a call of one exported function is pending with its   *)
(* arguments (pc = "call"); the action of that function runs it to its end *)
(* (pc = "done").  logCount counts the lines written to the console.       *)

ParseArgs == {[timeStr |-> v] : v \in NonStrings \cup {Str(s) : s \in TimeStrings}}

ClassArgs == {[score |-> q] : q \in Scores}

PowerArgs == {[t |-> q] : q \in Durations}

CalcArgs ==
  [distance : Distances, elevation : Elevations, komTime : KomTimes, riderMass : RiderMasses]

Init ==
  /\ MapIdle
  /\ HookIdle
  /\ WorkerIdle
  /\ pc = "call"
  /\ ret = Returned(Undefined)
  /\ logCount = 0
  /\ \/ fn = "parseKomTime" /\ args \in ParseArgs
     \/ fn = "getDifficultyClass" /\ args \in ClassArgs
     \/ fn = "calculateSegmentDifficulty" /\ args \in CalcArgs
     \/ fn = "referencePower" /\ args \in PowerArgs
     \/ fn = "getSegmentDifficulty" /\ args \in SegmentArgs
     \/ fn = "SegmentPanel" /\ args \in PanelArgs
     \/ fn = "SegmentCard" /\ args \in CardArgs

\* the call ends with its outcome, its lines written to the console
Finish(r) ==
  /\ ret' = r.outcome
  /\ logCount' = logCount + r.logs

CallParseKomTime ==
  /\ pc = "call"
  /\ fn = "parseKomTime"
  /\ ret' = parseKomTime(args.timeStr)
  /\ pc' = "done"
  /\ UNCHANGED <<fn, args, logCount>>
  /\ UNCHANGED <<mapVars, hookVars, workerVars>>

CallGetDifficultyClass ==
  /\ pc = "call"
  /\ fn = "getDifficultyClass"
  /\ ret' = Returned(getDifficultyClass(args.score))
  /\ pc' = "done"
  /\ UNCHANGED <<fn, args, logCount>>
  /\ UNCHANGED <<mapVars, hookVars, workerVars>>

CallCalculateSegmentDifficulty ==
  /\ pc = "call"
  /\ fn = "calculateSegmentDifficulty"
  /\ Finish(calculateSegmentDifficulty(args))
  /\ pc' = "done"
  /\ UNCHANGED <<fn, args>>
  /\ UNCHANGED <<mapVars, hookVars, workerVars>>

CallReferencePower ==
  /\ pc = "call"
  /\ fn = "referencePower"
  /\ ret' = Returned(referencePower(args.t))
  /\ pc' = "done"
  /\ UNCHANGED <<fn, args, logCount>>
  /\ UNCHANGED <<mapVars, hookVars, workerVars>>

CallGetSegmentDifficulty ==
  /\ pc = "call"
  /\ fn = "getSegmentDifficulty"
  /\ Finish(getSegmentDifficulty(args.segment, args.riderMass))
  /\ pc' = "done"
  /\ UNCHANGED <<fn, args>>
  /\ UNCHANGED <<mapVars, hookVars, workerVars>>

RenderSegmentPanel ==
  /\ pc = "call"
  /\ fn = "SegmentPanel"
  /\ Finish(SegmentPanel(args.segments, args.mapBounds))
  /\ pc' = "done"
  /\ UNCHANGED <<fn, args>>
  /\ UNCHANGED <<mapVars, hookVars, workerVars>>

RenderSegmentCard ==
  /\ pc = "call"
  /\ fn = "SegmentCard"
  /\ ret' = Returned(SegmentCard(args.segment, args.difficulty))
  /\ pc' = "done"
  /\ UNCHANGED <<fn, args, logCount>>
  /\ UNCHANGED <<mapVars, hookVars, workerVars>>

Next ==
  \/ RenderSegmentCard
  \/ RenderSegmentPanel
  \/ CallGetSegmentDifficulty
  \/ CallParseKomTime
  \/ CallGetDifficultyClass
  \/ CallCalculateSegmentDifficulty
  \/ CallReferencePower

Spec == Init /\ [][Next]_vars

----------------------------------------------------------------------------
(* Properties of parseKomTime *)

Done(f) == pc = "done" /\ fn = f

\* a parseKomTime call with a string argument has returned
ParsedString == Done("parseKomTime") /\ args.timeStr.t = "string"

AllDigits(c) == c # <<>> /\ \A i \in 1..Len(c) : c[i] \in Digits

\* c is the text of an integer: digits, with an optional sign and optional
\* white space around it
IntegerText(c) ==
  LET t == Trim(c)
  IN  \/ AllDigits(t)
      \/ t # <<>> /\ Head(t) \in {"-", "+"} /\ AllDigits(Tail(t))

Colons(str) == Cardinality({i \in 1..Len(str) : str[i] = ":"})

\* C5: parseKomTime returns null for a colon-separated string whenever one
\* of its components is not an integer, e.g. "5:3a": a component with
\* trailing non-digit characters is not accepted by its numeric prefix.
C5_NonIntegerComponentIsNull ==
  ParsedString =>
    LET str == args.timeStr.s
        comps == Split(str)
    IN  (Colons(str) >= 1 /\ \E i \in 1..Len(comps) : ~IntegerText(comps[i]))
          => ret = Returned(Null)

\* C6: for every input string parseKomTime returns null or a non-negative
\* integer number of seconds, never a negative number.
C6_NeverNegative ==
  ParsedString =>
    /\ ret.kind = "return"
    /\ \/ ret.val = Null
       \/ ret.val.t = "number" /\ ret.val.n >= 0

\* C7: for strings made of digit-only components parseKomTime returns the
\* number itself for "N" and "Ns", minutes*60 + seconds for "M:S" and
\* hours*3600 + minutes*60 + seconds for "H:M:S".
C7_DigitComponentsValue ==
  ParsedString =>
    LET str == args.timeStr.s
        comps == Split(str)
        digitComps == \A i \in 1..Len(comps) : AllDigits(comps[i])
    IN  /\ AllDigits(str) => ret = Returned(Num(DecimalValue(str)))
        /\ (Len(str) >= 2 /\ str[Len(str)] = "s" /\ AllDigits(SubSeq(str, 1, Len(str) - 1)))
             => ret = Returned(Num(DecimalValue(SubSeq(str, 1, Len(str) - 1))))
        /\ (Len(comps) = 2 /\ digitComps)
             => ret = Returned(Num(DecimalValue(comps[1]) * 60 + DecimalValue(comps[2])))
        /\ (Len(comps) = 3 /\ digitComps)
             => ret = Returned(Num(DecimalValue(comps[1]) * 3600
                                     + DecimalValue(comps[2]) * 60 + DecimalValue(comps[3])))

\* "1:23:45" has been parsed to 5025 seconds
C7_Witness ==
  /\ ParsedString
  /\ args.timeStr.s = <<"1", ":", "2", "3", ":", "4", "5">>
  /\ ret = Returned(Num(5025))

\* the shapes C8 names, read on the string str
OtherShape(str) ==
  \/ str = <<>>
  \/ str = <<EmDash>>
  \/ Colons(str) >= 3
  \/ Colons(str) = 0 /\ ~SecondsRegex(str)

\* C8 as stated: parseKomTime returns null for the empty string, for the
\* placeholder dash, for a string with three or more colons, and for any
\* string that is neither digits (with optional trailing 's') nor a one- or
\* two-colon form.
C8_OtherShapeIsNull ==
  ParsedString => (OtherShape(args.timeStr.s) => ret = Returned(Null))

\* C8 amended: the same, with the shape read after leading and trailing
\* white space is removed (" 45 " is parsed as 45).
C8_TrimmedOtherShapeIsNull ==
  ParsedString =>
    ((args.timeStr.s = <<>> \/ OtherShape(Trim(args.timeStr.s))) => ret = Returned(Null))

\* a string without colon that starts with a digit but is not digits-only
\* has been rejected
C8_Witness ==
  /\ ParsedString
  /\ args.timeStr.s = <<"5", "a">>
  /\ ret = Returned(Null)

----------------------------------------------------------------------------
(* Properties of getDifficultyClass *)

Classified == Done("getDifficultyClass")

\* lo <= q < hi, for integers lo and hi
InBand(q, lo, hi) == RCmp(q, RInt(lo)) >= 0 /\ RCmp(q, RInt(hi)) < 0

\* C9: getDifficultyClass returns the first band, scanning the thresholds
\* 150, 130, 110, 90, 70, 50, 0 in that order, whose threshold is <= score;
\* thresholds are inclusive: 150 and above is 'suspicious', [130,150) is
\* 'extreme', [110,130) 'very-hard', [90,110) 'hard', [70,90) 'moderate',
\* [50,70) 'accessible' and [0,50) 'easy'.
C9_FirstBandInclusive ==
  Classified =>
    LET q == args.score
        c == ret.val.class
    IN  /\ RCmp(q, RInt(150)) >= 0 => c = "suspicious"
        /\ InBand(q, 130, 150) => c = "extreme"
        /\ InBand(q, 110, 130) => c = "very-hard"
        /\ InBand(q, 90, 110) => c = "hard"
        /\ InBand(q, 70, 90) => c = "moderate"
        /\ InBand(q, 50, 70) => c = "accessible"
        /\ InBand(q, 0, 50) => c = "easy"
        /\ \A i \in 1..Len(DIFFICULTY_CLASSES) :
             ( /\ RCmp(q, RInt(DIFFICULTY_CLASSES[i].min)) >= 0
               /\ \A j \in 1..(i - 1) : RCmp(q, RInt(DIFFICULTY_CLASSES[j].min)) < 0 )
               => ret.val = Band(DIFFICULTY_CLASSES[i])

\* the score 150 has been classified, as 'suspicious'
C9_Witness ==
  /\ Classified
  /\ RCmp(args.score, RInt(150)) = 0
  /\ ret.val.class = "suspicious"

SevenBands ==
  {"suspicious", "extreme", "very-hard", "hard", "moderate", "accessible", "easy"}

\* C10: getDifficultyClass is total: every numeric score, scores below 0
\* included, gets one of the seven bands and never 'unknown'; every score
\* below 0 gets 'easy'.
C10_TotalNeverUnknown ==
  Classified =>
    /\ ret.kind = "return"
    /\ ret.val.class \in SevenBands
    /\ ret.val.class # "unknown"
    /\ RCmp(args.score, RInt(0)) < 0 => ret.val.class = "easy"

\* a score below 0 has been classified, as 'easy'
C10_Witness ==
  /\ Classified
  /\ RCmp(args.score, RInt(0)) < 0
  /\ ret.val.class = "easy"

----------------------------------------------------------------------------
(* Properties of calculateSegmentDifficulty *)

Calculated == Done("calculateSegmentDifficulty")

Positive(v) == v.t = "number" /\ v.n > 0

\* the time parses to a duration > 0: a string parseKomTime reads as a
\* positive number, or a positive number of seconds
PositiveDuration(k) ==
  \/ k.t = "string" /\ Positive(parseKomTimeStr(k.s))
  \/ Positive(k)

Scoreable(o) ==
  /\ Positive(o.distance)
  /\ ~LooseNull(o.elevation)
  /\ Positive(o.riderMass)
  /\ PositiveDuration(o.komTime)

\* the invalid sentinel as the documentation writes it
Sentinel(r) ==
  /\ r.isValid = FALSE
  /\ r.komPower.t = "null" /\ r.komPowerWKg.t = "null" /\ r.difficultyScore.t = "null"
  /\ r.difficultyClass.class = "unknown"

\* C1: calculateSegmentDifficulty returns isValid = true exactly when
\* distance > 0, elevation is neither null nor undefined, riderMass > 0 and
\* komTime parses to a duration > 0; for every other input it returns the
\* invalid sentinel.
C1_ValidIffScoreable ==
  Calculated =>
    /\ ret.kind = "return"
    /\ ret.val.isValid = Scoreable(args)
    /\ ~Scoreable(args) => Sentinel(ret.val)

\* C2: for every options object, a komTime that is not a string included,
\* calculateSegmentDifficulty returns a result and never throws.
C2_NeverThrows == Calculated => ret.kind # "throw"

\* the decimal text of a natural number
RECURSIVE DecimalString(_)
DecimalString(k) ==
  IF k < 10 THEN <<DigitChars[k + 1]>>
  ELSE Append(DecimalString(k \div 10), DigitChars[(k % 10) + 1])

\* C3: with komTime an already-parsed positive number of seconds and
\* otherwise valid inputs, calculateSegmentDifficulty returns the same valid
\* result as with the string form of that number.
C3_ParsedSecondsAccepted ==
  ( /\ Calculated
    /\ Positive(args.komTime)
    /\ Positive(args.distance) /\ ~LooseNull(args.elevation) /\ Positive(args.riderMass) )
    => /\ ret.kind = "return"
       /\ ret.val.isValid
       /\ ret = calculateSegmentDifficulty(
                  [args EXCEPT !.komTime = Str(DecimalString(args.komTime.n))]).outcome

\* C4: every result of calculateSegmentDifficulty has one of two shapes:
\* isValid = false with komPower, komPowerWKg and difficultyScore null and
\* class 'unknown', or isValid = true with the three numeric fields not null
\* and a class different from 'unknown'.
C4_TwoShapes ==
  (Calculated /\ ret.kind = "return") =>
    LET r == ret.val
    IN  \/ Sentinel(r)
        \/ /\ r.isValid = TRUE
           /\ r.komPower.t = "number" /\ r.komPowerWKg.t = "number"
           /\ r.difficultyScore.t = "number"
           /\ r.difficultyClass.class # "unknown"

\* the documented example has produced a valid result with its numbers
C4_Witness ==
  /\ Calculated
  /\ args.distance = Num(5000) /\ args.elevation = Num(300) /\ args.riderMass = Num(75)
  /\ args.komTime = Str(<<"2", "0", ":", "0", "0">>)
  /\ ret.kind = "return"
  /\ ret.val.isValid
  /\ ret.val.difficultyScore.t = "number"

----------------------------------------------------------------------------
(* Properties of referencePower *)

Referenced == Done("referencePower")

REq(x, y) == RCmp(x, y) = 0
RLt(x, y) == RCmp(x, y) < 0

\* C11: referencePower is monotonically non-increasing over all durations:
\* referencePower(t1) >= referencePower(t2) for t1 < t2, with the value
\* Pmax = 21.80 for t <= 0 and CP + W_APR / (Wprime + APR * t), that is
\* 4.77 + 4768.4 / (280 + 17.03 * t), for t > 0.
C11_ReferencePowerMonotone ==
  Referenced =>
    LET t == args.t
    IN  /\ RCmp(t, RInt(0)) <= 0 => REq(ret.val, RDec(2180, 100))
        /\ RCmp(t, RInt(0)) > 0 =>
             REq(ret.val,
                 RAdd(RDec(477, 100),
                      RDiv(RDec(47684, 10), RAdd(RInt(280), RMul(RDec(1703, 100), t)))))
        /\ \A u \in Durations : RLt(t, u) => RGe(ret.val, referencePower(u))

\* the reference power of half a second, below that of every shorter and
\* above that of every longer duration, has been computed
C11_Witness ==
  /\ Referenced
  /\ REq(args.t, RDec(5, 10))
  /\ RLt(ret.val, RDec(2180, 100))
  /\ RLt(referencePower(RInt(1)), ret.val)

----------------------------------------------------------------------------
(* Properties of the numbers of a valid result *)

\* calculateSegmentDifficulty has returned a valid result
Valid == Calculated /\ ret.kind = "return" /\ ret.val.isValid

\* the inputs of a valid result as numbers; the time is the parsed string
InDistance == RInt(args.distance.n)
InElevation == RInt(args.elevation.n)
InMass == RInt(args.riderMass.n)
InSeconds == RInt(parseKomTimeStr(args.komTime.s).n)

Sign(q) == IF q.num = <<>> THEN 0 ELSE IF q.neg THEN -1 ELSE 1

\* C13: for a scoreable profile komPower = ((m+8)*9.81*v*grade +
\* (m+8)*9.81*v*0.004 + 0.5*1.2*0.28*v^3) / 0.98 with v = distance/seconds,
\* grade = elevation/distance and m = riderMass, and komPowerWKg =
\* komPower / riderMass (rider mass only).
C13_PowerFormula ==
  Valid =>
    LET v == RDiv(InDistance, InSeconds)
        grade == RDiv(InElevation, InDistance)
        weight == RMul(RAdd(InMass, RInt(8)), RDec(981, 100))
        climbAndRoll == RMul(RMul(weight, v), RAdd(grade, RDec(4, 1000)))
        aero == RMul(RDec(168, 1000), RMul(v, RMul(v, v)))
    IN  /\ REq(RMul(ret.val.komPower.q, RDec(98, 100)), RAdd(climbAndRoll, aero))
        /\ REq(RMul(ret.val.komPowerWKg.q, InMass), ret.val.komPower.q)

\* the documented example has produced its power, between 233 and 235 W
C13_Witness ==
  /\ Valid
  /\ args.distance = Num(5000) /\ args.elevation = Num(300) /\ args.riderMass = Num(75)
  /\ args.komTime = Str(<<"2", "0", ":", "0", "0">>)
  /\ RLt(RInt(233), ret.val.komPower.q)
  /\ RLt(ret.val.komPower.q, RInt(235))

\* C14: for every valid result difficultyScore = (komPowerWKg /
\* referencePower(parsed seconds)) * 100, difficultyClass is the band
\* getDifficultyClass assigns to that score, and the score has the sign of
\* komPower.
C14_ScoreAndClass ==
  Valid =>
    /\ REq(RMul(ret.val.difficultyScore.q, referencePower(InSeconds)),
           RMul(ret.val.komPowerWKg.q, RInt(100)))
    /\ ret.val.difficultyClass = getDifficultyClass(ret.val.difficultyScore.q)
    /\ Sign(ret.val.difficultyScore.q) = Sign(ret.val.komPower.q)

\* a valid result with a score of 50 or more, not in the lowest band
C14_Witness ==
  /\ Valid
  /\ RGe(ret.val.difficultyScore.q, RInt(50))
  /\ ret.val.difficultyClass.class # "easy"

\* C15: with distance, time and rider mass fixed, a negative elevation
\* yields a strictly lower komPower than elevation 0; the value is not
\* clamped at zero, and the result is valid whenever the duration is
\* positive.
C15_DownhillLower ==
  ( /\ Calculated
    /\ args.elevation.t = "number" /\ args.elevation.n < 0
    /\ Positive(args.distance) /\ Positive(args.riderMass)
    /\ args.komTime.t = "string" /\ Positive(parseKomTimeStr(args.komTime.s)) )
    => /\ ret.kind = "return"
       /\ ret.val.isValid
       /\ LET flat == calculateSegmentDifficulty([args EXCEPT !.elevation = Num(0)]).outcome
          IN  /\ flat.val.isValid
              /\ RLt(ret.val.komPower.q, flat.val.komPower.q)

\* a downhill segment has produced a valid result with a negative komPower
C15_Witness ==
  /\ Valid
  /\ args.elevation = Num(-100)
  /\ ret.val.komPower.q.neg
  /\ ret.val.difficultyClass.class = "easy"

\* the documented end-to-end example has been computed
Example ==
  /\ Calculated
  /\ args.distance = Num(5000) /\ args.elevation = Num(300) /\ args.riderMass = Num(75)
  /\ args.komTime = Str(<<"2", "0", ":", "0", "0">>)

\* C16 as stated: for distance = 5000 m, elevation = 300 m, komTime =
\* "20:00" and riderMass = 75 kg the result is valid with difficultyScore
\* about 62.8 and class 'moderate'.
C16_ExampleModerate ==
  Example =>
    /\ ret.kind = "return" /\ ret.val.isValid
    /\ RGe(ret.val.difficultyScore.q, RDec(6275, 100))
    /\ RLt(ret.val.difficultyScore.q, RDec(6285, 100))
    /\ ret.val.difficultyClass.class = "moderate"

\* C16 amended: for the same input the result is valid with difficultyScore
\* about 62.4 and class 'accessible'.
C16_ExampleAccessible ==
  Example =>
    /\ ret.kind = "return" /\ ret.val.isValid
    /\ RGe(ret.val.difficultyScore.q, RDec(6235, 100))
    /\ RLt(ret.val.difficultyScore.q, RDec(6245, 100))
    /\ ret.val.difficultyClass.class = "accessible"

\* the example has returned, with a power per kilogram between 3.1 and 3.2
C16_Witness ==
  /\ Example
  /\ ret.kind = "return"
  /\ RLt(RDec(31, 10), ret.val.komPowerWKg.q)
  /\ RLt(ret.val.komPowerWKg.q, RDec(32, 10))

\* C17: the scoring engine has no side effect on any call path: it writes
\* no log output, for a scoreable input and for a rejected one.
C17_NoLogOutput == [][logCount' = logCount]_vars

----------------------------------------------------------------------------
(* Properties of getSegmentDifficulty *)

FromSegment == Done("getSegmentDifficulty")

Present(v) == ~LooseNull(v)

\* what calculateSegmentDifficulty returns for the given distance and
\* elevation with the time and the rider mass of the pending call
EngineOn(distance, elevation) ==
  calculateSegmentDifficulty(
    [distance |-> distance, elevation |-> elevation,
     komTime |-> Opt(args.segment.details, args.segment.details.kom),
     riderMass |-> args.riderMass]).outcome

\* C19 as stated: getSegmentDifficulty takes details.distance when present
\* and data.distance otherwise, and data.elev_difference when present and
\* details.total_elevation_gain otherwise; a record with details = null
\* yields the invalid sentinel and does not throw.
C19_PreferredFields ==
  FromSegment =>
    LET data == args.segment.data
        details == args.segment.details
        detailed == Opt(details, details.distance)
        gain == Opt(details, details.total_elevation_gain)
    IN  /\ ret = EngineOn(IF Present(detailed) THEN detailed ELSE data.distance,
                          IF Present(data.elev_difference) THEN data.elev_difference ELSE gain)
        /\ ~details.loaded => (ret.kind = "return" /\ Sentinel(ret.val))

\* C19 amended: details.distance is taken when it is present and not 0,
\* data.distance otherwise; data.elev_difference when present,
\* details.total_elevation_gain otherwise when present, and 0 when neither
\* is present; a record with details = null yields the invalid sentinel and
\* does not throw.
C19_TruthyDistanceZeroElevation ==
  FromSegment =>
    LET data == args.segment.data
        details == args.segment.details
        detailed == Opt(details, details.distance)
        gain == Opt(details, details.total_elevation_gain)
    IN  /\ ret = EngineOn(IF Present(detailed) /\ detailed # Num(0)
                            THEN detailed ELSE data.distance,
                          IF Present(data.elev_difference) THEN data.elev_difference
                          ELSE IF Present(gain) THEN gain ELSE Num(0))
        /\ ~details.loaded => (ret.kind = "return" /\ Sentinel(ret.val))

\* a record with both distances has been scored, with the detailed one
C19_Witness ==
  /\ FromSegment
  /\ args.segment.data.distance = Num(1000)
  /\ args.segment.details.loaded
  /\ args.segment.details.distance = Num(5000)
  /\ ret.kind = "return" /\ ret.val.isValid
  /\ ret = EngineOn(Num(5000), args.segment.data.elev_difference)

----------------------------------------------------------------------------
(* Properties of SegmentPanel *)

PanelRendered == Done("SegmentPanel")

\* C18: in the list SegmentPanel renders, every segment with a valid
\* difficulty comes before every segment with an invalid one, and the valid
\* segments are in non-decreasing order of difficultyScore, negative scores
\* included.
C18_ValidFirstAscending ==
  PanelRendered =>
    \A i, j \in 1..Len(ret.val) :
      i < j =>
        LET a == ret.val[i].difficulty
            b == ret.val[j].difficulty
        IN  /\ b.isValid => a.isValid
            /\ (a.isValid /\ b.isValid)
                 => RCmp(a.difficultyScore.q, b.difficultyScore.q) <= 0

\* three segments given in the order invalid, steep, downhill have been
\* rendered as downhill (negative score), steep, invalid
C18_Witness ==
  /\ PanelRendered
  /\ Len(ret.val) = 3
  /\ ret.val[1].id = 3 /\ ret.val[2].id = 2 /\ ret.val[3].id = 1
  /\ ret.val[1].difficulty.isValid /\ ret.val[1].difficulty.difficultyScore.q.neg
  /\ ret.val[2].difficulty.isValid /\ ~ret.val[2].difficulty.difficultyScore.q.neg
  /\ ~ret.val[3].difficulty.isValid

----------------------------------------------------------------------------
(* Properties of SegmentCard *)

CardRendered == Done("SegmentCard")

\* C20: when a segment's difficulty has isValid = false, its card shows a
\* neutral dash badge in place of the score badge and shows no
\* power-in-watts readout.
C20_InvalidShowsDashBadge ==
  (CardRendered /\ ~args.difficulty.isValid) =>
    /\ ret.val.badge.shown
    /\ ret.val.badge.label = EmDash
    /\ ~ret.val.power.shown

----------------------------------------------------------------------------
(* App and MapView.  The map shows a view [center, zoom]; map.getBounds()   *)
(* is the box of that view, written as the view itself.  A timer is a      *)
(* pending callback: debounceRef (the moveend debounce of MOVE_DEBOUNCE    *)
(* ms), initialLoad (the 600 ms timer of the mount effect) and reloads     *)
(* (the 100 ms timers of handleTypeChange, which fire in the order they    *)
(* were set).  onBoundsChange is the activityType closed over by the       *)
(* handleBoundsChange that the mount effect of MapView captured: the       *)
(* effect has no dependencies, so it keeps the callback of the first       *)
(* render.  hookCall is the last call made to the useSegments hook.        *)

MIN_ZOOM_FOR_SEGMENTS == 12
DEFAULT_ZOOM == 13

\* the user zooms out at most MaxZoomOut levels below MIN_ZOOM_FOR_SEGMENTS,
\* pans between MaxCenters places, and at most MaxReloads reload timers pend
MaxZoomOut == 1
MaxCenters == 2
MaxReloads == 2

ActivityTypes == {"riding", "running"}
Zooms == (MIN_ZOOM_FOR_SEGMENTS - MaxZoomOut)..DEFAULT_ZOOM
Centers == 1..MaxCenters

\* [b.getSouth(), b.getWest(), b.getNorth(), b.getEast()] of the view
BoundsOf(c, z) == [center |-> c, zoom |-> z]
\* mapBounds = null
NoBounds == [center |-> 0, zoom |-> 0]

NoHookCall == [op |-> "none", by |-> "", bounds |-> NoBounds, type |-> ""]
LoadCall(by, bounds, type) ==
  [op |-> "loadForBounds", by |-> by, bounds |-> bounds, type |-> type]
ClearCall == [op |-> "clearAll", by |-> "switch", bounds |-> NoBounds, type |-> ""]

\* localStorage.getItem(LS_ACTIVITY_TYPE) || 'riding'; "" is no stored item
MapInit ==
  /\ EngineIdle
  /\ HookIdle
  /\ WorkerIdle
  /\ lsActivityType \in ActivityTypes \cup {""}
  /\ activityType = (IF lsActivityType = "" THEN "riding" ELSE lsActivityType)
  /\ appMapBounds = NoBounds
  /\ onBoundsChange = activityType
  /\ center = 1
  /\ zoom = DEFAULT_ZOOM
  /\ debounceRef = FALSE
  /\ initialLoad = TRUE
  /\ reloads = <<>>
  /\ hookCall = NoHookCall

\* the handleBoundsChange the map holds: setMapBounds(bounds) and
\* loadForBounds(bounds, activityType) with the activityType of its closure
handleBoundsChange(bounds) ==
  /\ appMapBounds' = bounds
  /\ hookCall' = LoadCall("bounds", bounds, onBoundsChange)

\* the map was moved or zoomed (by the user or by map.locate): the moveend
\* handler clears the pending debounce timer and sets a new one
MoveEnd ==
  /\ \E c \in Centers, z \in Zooms : center' = c /\ zoom' = z
  /\ debounceRef' = TRUE
  /\ UNCHANGED <<activityType, lsActivityType, appMapBounds, onBoundsChange,
                 initialLoad, reloads, hookCall>>
  /\ UNCHANGED <<engineVars, hookVars, workerVars>>

\* the debounce timer fires
DebounceFires ==
  /\ debounceRef
  /\ debounceRef' = FALSE
  /\ IF zoom < MIN_ZOOM_FOR_SEGMENTS
       THEN UNCHANGED <<appMapBounds, hookCall>>
       ELSE handleBoundsChange(BoundsOf(center, zoom))
  /\ UNCHANGED <<activityType, lsActivityType, onBoundsChange, center, zoom,
                 initialLoad, reloads>>
  /\ UNCHANGED <<engineVars, hookVars, workerVars>>

\* the timer of the initial load fires
InitialLoadFires ==
  /\ initialLoad
  /\ initialLoad' = FALSE
  /\ handleBoundsChange(BoundsOf(center, zoom))
  /\ UNCHANGED <<activityType, lsActivityType, onBoundsChange, center, zoom,
                 debounceRef, reloads>>
  /\ UNCHANGED <<engineVars, hookVars, workerVars>>

\* a button of the Ride/Run toggle is clicked
handleTypeChange ==
  /\ Len(reloads) < MaxReloads
  /\ \E type \in ActivityTypes :
       /\ activityType' = type
       /\ lsActivityType' = type
       /\ reloads' = IF appMapBounds # NoBounds
                       THEN Append(reloads, [bounds |-> appMapBounds, type |-> type])
                       ELSE reloads
  /\ hookCall' = ClearCall
  /\ UNCHANGED <<appMapBounds, onBoundsChange, center, zoom, debounceRef, initialLoad>>
  /\ UNCHANGED <<engineVars, hookVars, workerVars>>

\* the oldest reload timer fires: loadForBounds(mapBounds, type)
ReloadFires ==
  /\ reloads # <<>>
  /\ hookCall' = LoadCall("switch", Head(reloads).bounds, Head(reloads).type)
  /\ reloads' = Tail(reloads)
  /\ UNCHANGED <<activityType, lsActivityType, appMapBounds, onBoundsChange, center,
                 zoom, debounceRef, initialLoad>>
  /\ UNCHANGED <<engineVars, hookVars, workerVars>>

MapNext ==
  \/ MoveEnd
  \/ DebounceFires
  \/ InitialLoadFires
  \/ handleTypeChange
  \/ ReloadFires

MapSpec == MapInit /\ [][MapNext]_vars

----------------------------------------------------------------------------
(* Properties of App and MapView *)

\* the map hands a bounds change to onBoundsChange in this step
BoundsEmitted ==
  \/ DebounceFires /\ zoom >= MIN_ZOOM_FOR_SEGMENTS
  \/ InitialLoadFires

\* C21: after the user switched the activity type, every later bounds
\* change emitted by the map loads segments with the selected activity
\* type, not with the type selected when the map was created.
C21_BoundsLoadSelectedType ==
  [][BoundsEmitted => hookCall'.type = activityType]_vars

\* C27: MapView never calls onBoundsChange while the zoom is below
\* MIN_ZOOM_FOR_SEGMENTS, so no load is started by the debounced handler or
\* by the initial load while the zoom hint applies.
C27_NoLoadBelowMinZoom ==
  (hookCall.op = "loadForBounds" /\ hookCall.by = "bounds")
    => hookCall.bounds.zoom >= MIN_ZOOM_FOR_SEGMENTS

----------------------------------------------------------------------------
(* The useSegments hook, with a token present.  A state update is applied  *)
(* when it is queued: React applies the queued updaters of setSegments in  *)
(* the order of the calls, and the hook reads the state only inside them.  *)
(* The object an explore request returns for a segment is [id,             *)
(* activityType, call]: the id, the activity type that was asked for, and  *)
(* the number of the loadForBounds call that asked.  The details a detail  *)
(* request returns are [loaded, call] with the call that issued it;        *)
(* details = null is NoDetail.  The bounds of a call only choose what the  *)
(* platform answers, which is any answer here.                             *)

\* ids 1..MaxSegIds exist on the platform; MaxLoads calls of loadForBounds
MaxSegIds == 1
MaxLoads == 2

SegIds == 1..MaxSegIds
Quadrants == 1..4
Statuses == {401, 429, 500}

NoError == ""
TokenExpired == "Token abgelaufen. Bitte neu verbinden."
RateLimited == "Rate Limit erreicht. Bitte ein paar Minuten warten."
LoadFailed == "Fehler beim Laden der Segmente."

NoActive == 0
NoSegments == [id \in {} |-> 0]
NoDetail == [loaded |-> FALSE, call |-> 0]

\* what one exploreSegments request of a quadrant ends with: the segments
\* of its answer, a failure with an HTTP status (request throws), or an
\* answer whose segments field cannot be iterated
Ok(ids) == [kind |-> "ok", ids |-> ids, status |-> 200]
Failed(status) == [kind |-> "failed", ids |-> {}, status |-> status]
Malformed == [kind |-> "malformed", ids |-> {}, status |-> 200]

QuadrantOutcomes ==
  {Ok(ids) : ids \in SUBSET SegIds} \cup {Failed(st) : st \in Statuses} \cup {Malformed}

\* the outcomes of the four quadrants <<SW, SE, NW, NE>>; the two northern
\* quadrants are drawn equal to the two southern ones
ExploreResults == {<<a, b, a, b>> : a, b \in QuadrantOutcomes}

\* a quadrant whose request failed contributes [] (the .catch of the request)
Batch(outcome) == IF outcome.kind = "failed" THEN {} ELSE outcome.ids

\* the ids of explored: the batches flattened and deduplicated
Explored(results) == UNION {Batch(results[q]) : q \in Quadrants}

\* for (const seg of batch) throws a TypeError on such an answer
Throws(results) == \E q \in Quadrants : results[q].kind = "malformed"

Shell(id, load) ==
  [ data |-> [id |-> id, activityType |-> load.activityType, call |-> load.call],
    details |-> NoDetail ]

\* the updater that replaces the entry of every explored segment
addShells_overwrite(prev, explored, load) ==
  [id \in (DOMAIN prev) \cup explored |->
     IF id \in explored THEN Shell(id, load) ELSE prev[id]]

\* the updater of step 2: a shell for every explored segment without entry
addShells(prev, explored, load) ==
  [id \in (DOMAIN prev) \cup explored |->
     IF id \in DOMAIN prev THEN prev[id] ELSE Shell(id, load)]

\* the updater of a detail answer
withDetails(prev, req) ==
  IF req.id \notin DOMAIN prev THEN prev
  ELSE [prev EXCEPT ![req.id].details = [loaded |-> TRUE, call |-> req.call]]

HookInit ==
  /\ EngineIdle
  /\ MapIdle
  /\ WorkerIdle
  /\ hookSegments = NoSegments
  /\ activeId = NoActive
  /\ loading = FALSE
  /\ error = NoError
  /\ detailsFetched = {}
  /\ loads = {}
  /\ detailRequests = {}
  /\ issued = 0
  /\ clearedAt = 0

\* loadForBounds up to its await: the four explore requests are sent
LoadForBounds(type) ==
  /\ issued < MaxLoads
  /\ loading' = TRUE
  /\ error' = NoError
  /\ issued' = issued + 1
  /\ loads' = loads \cup {[call |-> issued + 1, activityType |-> type]}
  /\ UNCHANGED <<hookSegments, activeId, detailsFetched, detailRequests, clearedAt>>
  /\ UNCHANGED <<engineVars, mapVars, workerVars>>

\* the rest of loadForBounds once the four requests of load have ended
ExploreSettles(load, results) ==
  /\ load \in loads
  /\ loads' = loads \ {load}
  /\ IF Throws(results)
       THEN /\ error' = LoadFailed
            /\ UNCHANGED <<hookSegments, detailsFetched, detailRequests>>
       ELSE LET explored == Explored(results)
                newSegments == explored \ detailsFetched
            IN  /\ detailsFetched' = detailsFetched \cup explored
                /\ hookSegments' = addShells(hookSegments, explored, load)
                /\ detailRequests' =
                     detailRequests \cup {[id |-> id, call |-> load.call] : id \in newSegments}
                /\ UNCHANGED error
  /\ loading' = FALSE
  /\ UNCHANGED <<activeId, issued, clearedAt>>
  /\ UNCHANGED <<engineVars, mapVars, workerVars>>

\* getSegmentById of req answered
DetailArrives(req) ==
  /\ req \in detailRequests
  /\ detailRequests' = detailRequests \ {req}
  /\ hookSegments' = withDetails(hookSegments, req)
  /\ UNCHANGED <<activeId, loading, error, detailsFetched, loads, issued, clearedAt>>
  /\ UNCHANGED <<engineVars, mapVars, workerVars>>

\* getSegmentById of req failed
DetailFails(req) ==
  /\ req \in detailRequests
  /\ detailRequests' = detailRequests \ {req}
  /\ detailsFetched' = detailsFetched \ {req.id}
  /\ UNCHANGED <<hookSegments, activeId, loading, error, loads, issued, clearedAt>>
  /\ UNCHANGED <<engineVars, mapVars, workerVars>>

clearAll ==
  /\ hookSegments' = NoSegments
  /\ activeId' = NoActive
  /\ detailsFetched' = {}
  /\ clearedAt' = issued
  /\ UNCHANGED <<loading, error, loads, detailRequests, issued>>
  /\ UNCHANGED <<engineVars, mapVars, workerVars>>

\* a segment of the panel or of the map is clicked
setActiveId(id) ==
  /\ id \in DOMAIN hookSegments
  /\ activeId' = id
  /\ UNCHANGED <<hookSegments, loading, error, detailsFetched, loads, detailRequests,
                 issued, clearedAt>>
  /\ UNCHANGED <<engineVars, mapVars, workerVars>>

HookNext ==
  \/ \E type \in ActivityTypes : LoadForBounds(type)
  \/ \E load \in loads, results \in ExploreResults : ExploreSettles(load, results)
  \/ \E req \in detailRequests : DetailArrives(req)
  \/ \E req \in detailRequests : DetailFails(req)
  \/ clearAll
  \/ \E id \in SegIds : setActiveId(id)

HookSpec == HookInit /\ [][HookNext]_vars

----------------------------------------------------------------------------
(* Properties of the useSegments hook *)

\* C22: after clearAll the segment set holds only segments returned by
\* explore requests issued after the clearAll: the answer of a call that
\* was in flight when clearAll ran does not put its segments back.
C22_OnlyLoadsAfterClear ==
  \A id \in DOMAIN hookSegments : hookSegments[id].data.call > clearedAt

\* C23: the loading flag is true whenever at least one loadForBounds call
\* is in progress, also when several calls overlap.
C23_LoadingWhileInProgress == (loads # {}) => loading

\* the details of the entry of id arrive in this step
DetailsArriveFor(id) == \E req \in detailRequests : req.id = id /\ DetailArrives(req)

\* C24: segments are cached by id: once an entry exists, later explore
\* results containing the same id leave its data and its loaded details
\* unchanged; an entry changes only when its details arrive (its data
\* stays) and disappears only through clearAll.
C24_CachedById ==
  [][\A id \in DOMAIN hookSegments :
       IF id \in DOMAIN hookSegments'
         THEN \/ hookSegments'[id] = hookSegments[id]
              \/ /\ DetailsArriveFor(id)
                 /\ hookSegments'[id].data = hookSegments[id].data
         ELSE clearAll]_vars

\* the second loadForBounds call explored a segment again (it issued the
\* detail request for it) whose entry still holds the object of the first call
C24_Witness ==
  \E req \in detailRequests :
    /\ req.call = 2
    /\ req.id \in DOMAIN hookSegments
    /\ hookSegments[req.id].data.call = 1

\* C25: under any interleaving of loadForBounds calls, clearAll calls and
\* request completions, a detail request for a segment id is issued only
\* when no other detail request for that id is in flight.
C25_OneDetailRequestPerId ==
  \A r1 \in detailRequests, r2 \in detailRequests : r1.id = r2.id => r1 = r2

\* every explore request of the call failed with the status
AllFailedWith(results, status) ==
  \A q \in Quadrants : results[q] = Failed(status)

ErrorFor(status) ==
  IF status = 401 THEN TokenExpired
  ELSE IF status = 429 THEN RateLimited
  ELSE LoadFailed

\* C26: when the explore requests of a loadForBounds call fail with status
\* 401 the error becomes the token message, with 429 the rate limit
\* message, with any other failure the general message.
C26_ErrorByStatus ==
  [][\A load \in loads, results \in ExploreResults, status \in Statuses :
       (ExploreSettles(load, results) /\ AllFailedWith(results, status))
         => error' = ErrorFor(status)]_vars

----------------------------------------------------------------------------
(* The token worker.  A value is a string; Absent stands for a field that  *)
(* is missing (undefined).  A JSON object is a function from field names   *)
(* to values, Absent for the fields it does not have: JSON.stringify       *)
(* leaves out the fields whose value is undefined.  The platform is taken  *)
(* to answer a granted request (res.ok) with a payload that has the three  *)
(* token fields, and never to repeat the client secret in its answer.      *)

Absent == "absent"

TokenFields == {"access_token", "refresh_token", "expires_at"}
PayloadFields == TokenFields \cup {"token_type", "athlete", "message", "errors"}
ResponseFields == PayloadFields \cup {"error"}

Truthy(v) == v # Absent /\ v # ""

\* the JSON object with the given fields
Json(fields) == [f \in ResponseFields |-> IF f \in DOMAIN fields THEN fields[f] ELSE Absent]

\* the request bodies: not JSON, or an object with code and refresh_token
RequestBodies ==
  [json : {TRUE}, code : {Absent, "", "code-1"}, refresh_token : {Absent, "", "refresh-0"}]
    \cup {[json |-> FALSE, code |-> Absent, refresh_token |-> Absent]}

Requests ==
  [method : {"OPTIONS", "POST", "GET"}, pathname : {"/exchange", "/refresh", "/other"},
   body : RequestBodies]

Envs ==
  [STRAVA_CLIENT_ID : {"client-id"}, STRAVA_CLIENT_SECRET : {"client-secret"},
   ALLOWED_ORIGIN : {Absent, "https://app.example"}]

\* the payload of a granted request, with or without the athlete
GrantedPayloads ==
  { [f \in PayloadFields |->
       IF f \in TokenFields THEN f \o "-1"
       ELSE IF f = "token_type" THEN type
       ELSE IF f = "athlete" THEN athlete
       ELSE Absent] : type \in {Absent, "Bearer"}, athlete \in {Absent, "athlete-1"} }

\* the payload of a refused request
RefusedPayloads ==
  { [f \in PayloadFields |->
       IF f = "message" THEN message
       ELSE IF f = "errors" THEN errors
       ELSE Absent] : message \in {Absent, "", "Bad Request"}, errors \in {Absent, "errors-1"} }

NoPayload == [f \in PayloadFields |-> Absent]

\* the answers of the token endpoint: granted, refused, a body that is not
\* JSON, or no answer at all (fetch rejects)
PlatformAnswers ==
  [kind : {"json"}, ok : {TRUE}, status : {200}, data : GrantedPayloads]
    \cup [kind : {"json"}, ok : {FALSE}, status : {400, 401}, data : RefusedPayloads]
    \cup [kind : {"text", "unreachable"}, ok : {FALSE}, status : {502}, data : {NoPayload}]

NoTokenRequest == [f \in {"client_id", "client_secret", "grant", "grant_type"} |-> Absent]

NoResponse == [status |-> 0, body |-> Json(<<>>), text |-> "", allowOrigin |-> Absent]

\* what a handler ends with: the response it returns or the message of the
\* error it throws, and the body it posted to the token endpoint
Returns(status, fields, posted) ==
  [threw |-> FALSE, status |-> status, body |-> Json(fields), text |-> "",
   message |-> "", posted |-> posted]
ReturnsText(status, text) ==
  [threw |-> FALSE, status |-> status, body |-> Json(<<>>), text |-> text,
   message |-> "", posted |-> NoTokenRequest]
ThrowsError(message, posted) ==
  [threw |-> TRUE, status |-> 0, body |-> Json(<<>>), text |-> "",
   message |-> message, posted |-> posted]

\* the success response passing the whole payload of the platform on
tokenResponse_wholePayload(data, posted) ==
  Returns(200, data, posted)

\* the success response: only what the frontend needs
tokenResponse(data, posted) ==
  Returns(200, [f \in TokenFields |-> data[f]], posted)

\* the part handleExchange and handleRefresh share: the POST to the token
\* endpoint with the grant, and the response made of its answer
relay(grant, grantType, fallback) ==
  LET posted == [client_id |-> env.STRAVA_CLIENT_ID,
                 client_secret |-> env.STRAVA_CLIENT_SECRET,
                 grant |-> grant, grant_type |-> grantType]
  IN  IF platform.kind = "unreachable" THEN ThrowsError("fetch failed", posted)
      ELSE IF platform.kind = "text" THEN ThrowsError("SyntaxError", posted)
      ELSE IF ~platform.ok
        THEN Returns(platform.status,
                     [error |-> IF Truthy(platform.data["message"])
                                  THEN platform.data["message"] ELSE fallback],
                     posted)
      ELSE tokenResponse(platform.data, posted)

handleExchange ==
  IF ~request.body.json THEN ThrowsError("SyntaxError", NoTokenRequest)
  ELSE IF ~Truthy(request.body.code)
    THEN Returns(400, [error |-> "Missing code"], NoTokenRequest)
  ELSE relay(request.body.code, "authorization_code", "Token exchange failed")

handleRefresh ==
  IF ~request.body.json THEN ThrowsError("SyntaxError", NoTokenRequest)
  ELSE IF ~Truthy(request.body.refresh_token)
    THEN Returns(400, [error |-> "Missing refresh_token"], NoTokenRequest)
  ELSE relay(request.body.refresh_token, "refresh_token", "Token refresh failed")

\* the catch of fetch (an error becomes a 500 with its message) and
\* corsResponse, which copies status and body and sets the CORS headers
Respond(r) ==
  /\ response' =
       [ status |-> IF r.threw THEN 500 ELSE r.status,
         body |-> IF r.threw THEN Json([error |-> r.message]) ELSE r.body,
         text |-> r.text,
         allowOrigin |-> IF Truthy(env.ALLOWED_ORIGIN) THEN env.ALLOWED_ORIGIN ELSE "*" ]
  /\ tokenRequest' = r.posted
  /\ UNCHANGED <<request, env, platform>>
  /\ UNCHANGED <<engineVars, mapVars, hookVars>>

WorkerInit ==
  /\ EngineIdle
  /\ MapIdle
  /\ HookIdle
  /\ request \in Requests
  /\ env \in Envs
  /\ platform \in PlatformAnswers
  /\ tokenRequest = NoTokenRequest
  /\ response = NoResponse

Pending == response = NoResponse

FetchOptions ==
  /\ Pending
  /\ request.method = "OPTIONS"
  /\ Respond(ReturnsText(204, ""))

FetchExchange ==
  /\ Pending
  /\ request.method = "POST" /\ request.pathname = "/exchange"
  /\ Respond(handleExchange)

FetchRefresh ==
  /\ Pending
  /\ request.method = "POST" /\ request.pathname = "/refresh"
  /\ Respond(handleRefresh)

FetchNotFound ==
  /\ Pending
  /\ request.method # "OPTIONS"
  /\ ~(request.method = "POST" /\ request.pathname \in {"/exchange", "/refresh"})
  /\ Respond(ReturnsText(404, "Not found"))

WorkerNext ==
  \/ FetchOptions
  \/ FetchExchange
  \/ FetchRefresh
  \/ FetchNotFound

WorkerSpec == WorkerInit /\ [][WorkerNext]_vars

----------------------------------------------------------------------------
(* Properties of the token worker *)

Responded == response # NoResponse

\* a successful response of POST /exchange or POST /refresh
Successful ==
  /\ Responded
  /\ request.method = "POST" /\ request.pathname \in {"/exchange", "/refresh"}
  /\ response.status = 200

\* the fields of a JSON body and their values
FieldsOf(body) == {f \in ResponseFields : body[f] # Absent}
Values(body) == {body[f] : f \in FieldsOf(body)}

TokensOnly ==
  Successful =>
    /\ FieldsOf(response.body) = TokenFields
    /\ \A f \in TokenFields : response.body[f] = platform.data[f]

\* no field of the payload outside kept appears in the response
NothingBut(kept) ==
  Responded =>
    \A f \in PayloadFields \ kept :
      platform.data[f] # Absent => platform.data[f] \notin Values(response.body)

SecretKept ==
  Responded =>
    env.STRAVA_CLIENT_SECRET \notin Values(response.body) \cup {response.text, response.allowOrigin}

\* C28: a successful response of POST /exchange and POST /refresh contains
\* exactly the fields access_token, refresh_token and expires_at taken from
\* the platform's token payload; no other field of the platform's payload
\* and never the client secret appears in any worker response.
C28_OnlyTokenFields ==
  /\ TokensOnly
  /\ NothingBut(TokenFields)
  /\ SecretKept

\* C28 as the code has it: as above, but a response that is not successful
\* has no field other than error, and error passes the message of the
\* platform's payload on when the platform refused with a message.
C28_TokensOrError ==
  /\ TokensOnly
  /\ (Responded /\ ~Successful) => FieldsOf(response.body) \subseteq {"error"}
  /\ NothingBut(TokenFields \cup {"message"})
  /\ SecretKept

\* a code was exchanged: the secret went to the platform, whose payload
\* held athlete data, and the worker answered with status 200
C28_Witness ==
  /\ Successful
  /\ request.pathname = "/exchange"
  /\ tokenRequest["client_secret"] = env.STRAVA_CLIENT_SECRET
  /\ platform.data["athlete"] # Absent

====
